---- MODULE Spec2Model ----
(***************************************************************************)
(* Model of the kop-audio voice relay (src/src/server.rs): the wire        *)
(* protocol (encode_message / decode_message), the peer registry, the      *)
(* liveness sweep and the fan-out of server_loop.                          *)
(*                                                                         *)
(* One iteration of server_loop is one action: the relay is a single task  *)
(* and nothing else touches its state, so the iteration is atomic.  The    *)
(* datagrams the iteration hands to socket.send_to are recorded, in order, *)
(* in `sent`; a send_to that fails is only logged by the code and changes  *)
(* nothing else, so `sent` is the list of send_to calls.                   *)
(*                                                                         *)
(* Time is counted in milliseconds; Duration::as_secs truncates to whole   *)
(* seconds.  A datagram is a sequence of bytes (0..255).                   *)
(***************************************************************************)
EXTENDS Integers, Sequences, FiniteSets, TLC

VARIABLES
    clients,        \* server_loop: Vec<ClientInfo>, in insertion order
    check_counter,  \* server_loop: datagrams counted since the last sweep
    now,            \* the monotonic clock read by Instant::now(), in ms
    sent,           \* the send_to calls of the last loop iteration, in order
    last,           \* what the last step was, and the locals of that iteration
    received,       \* datagrams received without error since the last sweep
    codec,          \* state of the encode/decode round-trip harness
    snd,            \* the client's send pipeline (NetworkClient and send_audio)
    rcv,            \* the client's receive pipeline (receive_audio)
    sil,            \* state of the is_silence harness
    ui,             \* App::client_state of the terminal UI
    up,             \* datagrams the client has sent, not yet received by the relay
    byed            \* history: the addresses whose Bye the relay has processed

\* the variables of the client, which the relay and the codec harness leave alone
client_vars == <<snd, rcv, sil>>

\* the UI, the way from the client to the relay, and the history kept
\* for the properties of a whole session
session_vars == <<ui, up, byed>>

vars == <<clients, check_counter, now, sent, last, received, codec, snd, rcv, sil,
          ui, up, byed>>

----------------------------------------------------------------------------
(* Bounds of the model *)

\* the clock stops advancing here (ms)
MaxTime == 500000
\* longest payload handed to encode_message by the round-trip harness
MaxPayloadLen == 3

\* the clock advances in steps of 499.999 s or 500 s, so that ages just below
\* and exactly at the eviction threshold both occur
TickSteps == {499999, 500000}

\* peer socket addresses: two ports on one host, and one port on two hosts
Addrs ==
    { [ip |-> <<10, 0, 0, 1>>, port |-> 7],
      [ip |-> <<10, 0, 0, 1>>, port |-> 80],
      [ip |-> <<10, 0, 0, 2>>, port |-> 7] }

\* byte values used in payloads: 'A', the two bytes of U+00E9, and 0xFF
\* (which never occurs in UTF-8)
PayloadBytes == {65, 195, 169, 255}

----------------------------------------------------------------------------
(* Wire protocol: MessageType, decode_message, encode_message *)

Audio == 1
Ping == 2
Hello == 3
Bye == 4
NewClient == 5
DeleteClient == 6

KnownKinds == {Audio, Ping, Hello, Bye, NewClient, DeleteClient}

\* the slice starts at the kind byte
Tail1_from_kind(s) == s

Tail1(s) == SubSeq(s, 2, Len(s))

\* a UTF-8 continuation byte, 0x80..0xBF
IsCont(b) == b >= 128 /\ b <= 191

\* std::str::from_utf8(payload).is_ok(): well-formed UTF-8 (RFC 3629)
RECURSIVE Utf8From(_, _)
Utf8From(s, i) ==
    IF i > Len(s) THEN TRUE
    ELSE LET b == s[i]
             has(n) == i + n <= Len(s)
                       /\ \A k \in 1..n : IsCont(s[i + k])
         IN IF b <= 127 THEN Utf8From(s, i + 1)
            ELSE IF b >= 194 /\ b <= 223 THEN has(1) /\ Utf8From(s, i + 2)
            ELSE IF b >= 224 /\ b <= 239
                 THEN /\ has(2)
                      /\ (b = 224 => s[i + 1] >= 160)
                      /\ (b = 237 => s[i + 1] <= 159)
                      /\ Utf8From(s, i + 3)
            ELSE IF b >= 240 /\ b <= 244
                 THEN /\ has(3)
                      /\ (b = 240 => s[i + 1] >= 144)
                      /\ (b = 244 => s[i + 1] <= 143)
                      /\ Utf8From(s, i + 4)
            ELSE FALSE

from_utf8_ok(s) == Utf8From(s, 1)

\* Message<'a>: a record tagged by the variant; Ping and Bye carry nothing,
\* Hello carries the text (as its bytes), Unknown carries the kind byte too
decode_message(buf) ==
    IF Len(buf) = 0 THEN [variant |-> "Unknown", kind |-> 0, payload |-> buf]
    ELSE LET kind == buf[1]
             payload == Tail1(buf)
         IN CASE kind = Audio -> [variant |-> "Audio", payload |-> payload]
              [] kind = Ping -> [variant |-> "Ping"]
              [] kind = Hello ->
                   [variant |-> "Hello",
                    text |-> IF from_utf8_ok(payload) THEN payload ELSE << >>]
              [] kind = Bye -> [variant |-> "Bye"]
              [] kind = NewClient -> [variant |-> "NewClient", payload |-> payload]
              [] kind = DeleteClient ->
                   [variant |-> "DeleteClient", payload |-> payload]
              [] OTHER -> [variant |-> "Unknown", kind |-> kind, payload |-> payload]

\* the kind byte is not pushed
encode_message_no_kind(msg_type, payload) == payload

encode_message(msg_type, payload) == <<msg_type>> \o payload

----------------------------------------------------------------------------
(* SocketAddr::to_string().as_bytes(): "a.b.c.d:port" in ASCII *)

RECURSIVE DecBytes(_)
DecBytes(n) ==
    IF n < 10 THEN <<48 + n>> ELSE DecBytes(n \div 10) \o <<48 + (n % 10)>>

addr_text(addr) ==
    DecBytes(addr.ip[1]) \o <<46>> \o DecBytes(addr.ip[2]) \o <<46>>
    \o DecBytes(addr.ip[3]) \o <<46>> \o DecBytes(addr.ip[4])
    \o <<58>> \o DecBytes(addr.port)

\* the text of each address the model uses, computed once
AddrText == [a \in Addrs |-> addr_text(a)]

addr_to_string(addr) == AddrText[addr]

----------------------------------------------------------------------------
(* The relay *)

\* the sweep runs when check_counter reaches this
SweepEvery == 100
\* a peer this many seconds without a datagram is evicted by the sweep
TimeoutSecs == 500

Dg(to, bytes) == [to |-> to, bytes |-> bytes]

RECURSIVE Concat(_)
Concat(ss) == IF Len(ss) = 0 THEN << >> ELSE Head(ss) \o Concat(Tail(ss))

\* Instant::duration_since (saturating), then Duration::as_secs
as_secs(later, earlier) ==
    (IF later >= earlier THEN later - earlier ELSE 0) \div 1000

\* the flag is never cleared
is_new_client_always(cs, addr) == TRUE

\* lines 44-50: no entry has this address
is_new_client(cs, addr) == \A i \in 1..Len(cs) : cs[i].addr # addr

\* a known address is left with its old timestamp
Touch_no_refresh(cs, addr, t) ==
    IF is_new_client(cs, addr)
    THEN Append(cs, [addr |-> addr, last_active |-> t])
    ELSE cs

\* lines 44-57: refresh every entry with this address, or push a new one
Touch(cs, addr, t) ==
    IF is_new_client(cs, addr)
    THEN Append(cs, [addr |-> addr, last_active |-> t])
    ELSE [i \in 1..Len(cs) |->
            IF cs[i].addr = addr
            THEN [addr |-> cs[i].addr, last_active |-> t]
            ELSE cs[i]]

\* the Bye goes to the first entry left rather than to the removed address
remove_client_bye_astray(cs, addr) ==
    LET kept == SelectSeq(cs, LAMBDA c : c.addr # addr)
    IN IF Len(kept) < Len(cs)
       THEN [clients |-> kept,
             out |-> <<Dg(IF kept = << >> THEN addr ELSE kept[1].addr,
                          encode_message(Bye, << >>))>>
                     \o [i \in 1..Len(kept) |->
                           Dg(kept[i].addr,
                              encode_message(DeleteClient, addr_to_string(addr)))]]
       ELSE [clients |-> cs, out |-> << >>]

\* the DeleteClient goes to every entry the registry had before the retain
remove_client_tell_all(cs, addr) ==
    LET kept == SelectSeq(cs, LAMBDA c : c.addr # addr)
    IN IF Len(kept) < Len(cs)
       THEN [clients |-> kept,
             out |-> <<Dg(addr, encode_message(Bye, << >>))>>
                     \o [i \in 1..Len(cs) |->
                           Dg(cs[i].addr,
                              encode_message(DeleteClient, addr_to_string(addr)))]]
       ELSE [clients |-> cs, out |-> << >>]

\* remove_client: retain, and when something was removed a Bye to the removed
\* address and a DeleteClient to every entry left
remove_client(cs, addr) ==
    LET kept == SelectSeq(cs, LAMBDA c : c.addr # addr)
    IN IF Len(kept) < Len(cs)
       THEN [clients |-> kept,
             out |-> <<Dg(addr, encode_message(Bye, << >>))>>
                     \o [i \in 1..Len(kept) |->
                           Dg(kept[i].addr,
                              encode_message(DeleteClient, addr_to_string(addr)))]]
       ELSE [clients |-> cs, out |-> << >>]

\* > in place of >=
TimedOut_late(t, last_active) == as_secs(t, last_active) > TimeoutSecs

\* the threshold one second short
TimedOut_early(t, last_active) == as_secs(t, last_active) >= TimeoutSecs - 1

\* line 63: the filter of the sweep
TimedOut(t, last_active) == as_secs(t, last_active) >= TimeoutSecs

\* every entry listed, the fresh ones too
to_remove_all(cs, t) == [i \in 1..Len(cs) |-> cs[i].addr]

\* lines 61-65: the addresses of the timed-out entries, in registry order
to_remove(cs, t) ==
    LET stale == SelectSeq(cs, LAMBDA c : TimedOut(t, c.last_active))
    IN [i \in 1..Len(stale) |-> stale[i].addr]

\* lines 66-68: remove_client for each address of to_remove, in order
RECURSIVE RemoveEach(_, _)
RemoveEach(cs, addrs) ==
    IF Len(addrs) = 0 THEN [clients |-> cs, out |-> << >>]
    ELSE LET one == remove_client(cs, Head(addrs))
             rest == RemoveEach(one.clients, Tail(addrs))
         IN [clients |-> rest.clients, out |-> one.out \o rest.out]

\* > in place of >=
SweepDue_late(count) == count > SweepEvery

\* line 59: whether this datagram triggers the sweep
SweepDue(count) == count >= SweepEvery

\* the sender is not left out
Others_all(cs, addr) == cs

\* lines 85 and 110: the entries whose address is not the sender's
Others(cs, addr) == SelectSeq(cs, LAMBDA c : c.addr # addr)

\* the two destinations exchanged
hello_notices_swapped(other, addr) ==
    << Dg(addr, encode_message(NewClient, addr_to_string(addr))),
       Dg(other, encode_message(NewClient, addr_to_string(other))) >>

\* only the existing peer is told
hello_notices_one_way(other, addr) ==
    << Dg(other, encode_message(NewClient, addr_to_string(addr))) >>

\* lines 111-128: the two notifications of a Hello from addr for one entry
hello_notices(other, addr) ==
    << Dg(other, encode_message(NewClient, addr_to_string(addr))),
       Dg(addr, encode_message(NewClient, addr_to_string(other))) >>

\* lines 76-145: the match on the decoded message, against the registry as
\* the sweep left it
Dispatch(cs, addr, buf) ==
    LET msg == decode_message(buf)
        others == Others(cs, addr)
    IN CASE msg.variant = "Audio" ->
              [clients |-> cs,
               out |-> [i \in 1..Len(others) |-> Dg(others[i].addr, buf)]]
         [] msg.variant = "Hello" ->
              [clients |-> cs,
               out |-> <<Dg(addr, encode_message(Hello, msg.text))>>
                       \o Concat([i \in 1..Len(others) |->
                                    hello_notices(others[i].addr, addr)])]
         [] msg.variant = "Bye" -> remove_client(cs, addr)
         [] OTHER -> [clients |-> cs, out |-> << >>]

\* datagrams the model delivers to the relay: Audio, Hello (with text), Bye,
\* and a kind the protocol does not know (the match treats Ping, NewClient and
\* DeleteClient as it treats that one: it sends nothing and removes nothing)
Datagrams ==
    { <<Audio, 195, 169>>, <<Hello, 65>>, <<Bye>>, <<9, 65>> }

\* one iteration of server_loop whose recv_from returned (buf, addr)
server_loop(addr, buf) ==
    LET touched == Touch(clients, addr, now)
        count == check_counter + 1
        due == SweepDue(count)
        removed == IF due THEN to_remove(touched, now) ELSE << >>
        swept == RemoveEach(touched, removed)
        done == Dispatch(swept.clients, addr, buf)
    IN /\ clients' = done.clients
       /\ check_counter' = IF due THEN 0 ELSE count
       /\ sent' = swept.out \o done.out
       /\ last' = [op |-> "recv", addr |-> addr, buf |-> buf,
                   is_new_client |-> is_new_client(clients, addr),
                   swept |-> due, to_remove |-> removed]
       /\ received' = IF due THEN 0 ELSE received + 1
       /\ UNCHANGED <<now, codec, client_vars>>

\* lines 37-43: recv_from failed; the iteration ends before anything is counted
recv_error ==
    /\ last' = [op |-> "recv_error"]
    /\ sent' = << >>
    /\ UNCHANGED <<clients, check_counter, now, received, codec, client_vars, session_vars>>

\* time passes between two datagrams
Tick ==
    /\ \E d \in TickSteps :
         /\ now + d <= MaxTime
         /\ now' = now + d
    /\ last' = [op |-> "tick"]
    /\ sent' = << >>
    /\ UNCHANGED <<clients, check_counter, received, codec, client_vars, session_vars>>

CodecIdle == [pc |-> "idle"]

\* no client process is part of the run
ClientIdle ==
    /\ snd = [pc |-> "idle"]
    /\ rcv = [pc |-> "idle"]
    /\ sil = [pc |-> "idle"]
    /\ ui = [pc |-> "idle"]
    /\ up = << >>
    /\ byed = {}

\* the relay before its first datagram, nothing else running
RelayIdle ==
    /\ clients = << >>
    /\ check_counter = 0
    /\ now = 0
    /\ sent = << >>
    /\ last = [op |-> "init"]
    /\ received = 0

relay_vars == <<clients, check_counter, now, sent, last, received>>

Init ==
    /\ clients = << >>
    /\ check_counter = 0
    /\ now = 0
    /\ sent = << >>
    /\ last = [op |-> "init"]
    /\ received = 0
    /\ codec = CodecIdle
    /\ ClientIdle

Receive ==
    /\ \E addr \in Addrs, buf \in Datagrams : server_loop(addr, buf)
    /\ UNCHANGED session_vars

Next ==
    \/ Receive
    \/ recv_error
    \/ Tick

Spec == Init /\ [][Next]_vars

----------------------------------------------------------------------------
(* The wire protocol on its own: encode_message, then decode_message of    *)
(* what it returned, for every known kind and every payload over           *)
(* PayloadBytes of length 0..MaxPayloadLen.                                *)

RECURSIVE SeqsUpTo(_, _)
SeqsUpTo(S, n) ==
    IF n = 0 THEN {<< >>}
    ELSE LET shorter == SeqsUpTo(S, n - 1)
         IN shorter \cup {Append(q, b) : q \in {r \in shorter : Len(r) = n - 1}, b \in S}

Payloads == SeqsUpTo(PayloadBytes, MaxPayloadLen)

CodecInit ==
    /\ clients = << >>
    /\ check_counter = 0
    /\ now = 0
    /\ sent = << >>
    /\ last = [op |-> "init"]
    /\ received = 0
    /\ codec \in [pc : {"start"}, kind : KnownKinds, payload : Payloads]
    /\ ClientIdle

CodecEncode ==
    /\ codec.pc = "start"
    /\ codec' = [pc |-> "encoded", kind |-> codec.kind, payload |-> codec.payload,
                 buf |-> encode_message(codec.kind, codec.payload)]
    /\ UNCHANGED <<clients, check_counter, now, sent, last, received, client_vars, session_vars>>

CodecDecode ==
    /\ codec.pc = "encoded"
    /\ codec' = [pc |-> "decoded", kind |-> codec.kind, payload |-> codec.payload,
                 buf |-> codec.buf, msg |-> decode_message(codec.buf)]
    /\ UNCHANGED <<clients, check_counter, now, sent, last, received, client_vars, session_vars>>

CodecNext ==
    \/ CodecEncode
    \/ CodecDecode

SpecCodec == CodecInit /\ [][CodecNext]_vars

----------------------------------------------------------------------------
(* Vocabulary of the properties *)

Registered(cs) == {cs[i].addr : i \in 1..Len(cs)}

\* how many of the datagrams in s go to `to` and carry exactly `bytes`
CountSent(s, to, bytes) ==
    Cardinality({i \in 1..Len(s) : s[i].to = to /\ s[i].bytes = bytes})

\* how many of the datagrams in s go to `to` and have kind byte `kind`
CountKind(s, to, kind) ==
    Cardinality({i \in 1..Len(s) : s[i].to = to /\ s[i].bytes[1] = kind})

NewClientOf(addr) == <<NewClient>> \o addr_to_string(addr)
DeleteClientOf(addr) == <<DeleteClient>> \o addr_to_string(addr)

\* the last step was a loop iteration that received a datagram of this variant
Handled(variant) ==
    last.op = "recv" /\ decode_message(last.buf).variant = variant

Evicted == {last.to_remove[i] : i \in 1..Len(last.to_remove)}

----------------------------------------------------------------------------
(* C1: after an iteration that received an Audio datagram from P, every    *)
(* address other than P that is in the registry the datagram was           *)
(* dispatched against was sent the received bytes exactly once; no Audio   *)
(* datagram went to P or to an address outside the registry, none carried  *)
(* other bytes, and the only other datagrams of the iteration are the      *)
(* notifications of a sweep it triggered.                                  *)
C1_AudioFanOut ==
    Handled("Audio") =>
        /\ last.addr \in Registered(clients)
        /\ \A a \in Registered(clients) \ {last.addr} :
               CountSent(sent, a, last.buf) = 1
        /\ \A i \in 1..Len(sent) :
               sent[i].bytes[1] = Audio =>
                   /\ sent[i].bytes = last.buf
                   /\ sent[i].to \in Registered(clients) \ {last.addr}
        /\ \A i \in 1..Len(sent) :
               sent[i].bytes[1] # Audio =>
                   /\ last.swept
                   /\ sent[i].bytes[1] \in {Bye, DeleteClient}
        /\ CountKind(sent, last.addr, Audio) = 0

C1_Witness ==
    /\ Handled("Audio")
    /\ Cardinality(Registered(clients)) = 3
    /\ Len(sent) = 2
    /\ \A i \in 1..Len(sent) : sent[i].bytes = last.buf /\ sent[i].to # last.addr

----------------------------------------------------------------------------
(* C2 as stated: whenever a Hello from B is processed while another peer A *)
(* is in the registry, A is sent exactly one NewClient(B) and B exactly    *)
(* one NewClient(A).                                                       *)
C2_Original ==
    [][\A A \in Registered(clients) :
         (last'.op = "recv" /\ decode_message(last'.buf).variant = "Hello"
          /\ last'.addr # A)
         => /\ CountSent(sent', A, NewClientOf(last'.addr)) = 1
            /\ CountSent(sent', last'.addr, NewClientOf(A)) = 1]_vars

(* C2 as amended: the same, for every A that the sweep this Hello may      *)
(* trigger does not evict; B may be new or registered already, and is sent *)
(* no NewClient naming itself.                                             *)
C2_HandshakeSymmetry ==
    [][\A A \in Registered(clients) :
         (last'.op = "recv" /\ decode_message(last'.buf).variant = "Hello"
          /\ last'.addr # A
          /\ \A i \in 1..Len(last'.to_remove) : last'.to_remove[i] # A)
         => /\ CountSent(sent', A, NewClientOf(last'.addr)) = 1
            /\ CountKind(sent', A, NewClient) = 1
            /\ CountSent(sent', last'.addr, NewClientOf(A)) = 1
            /\ CountSent(sent', last'.addr, NewClientOf(last'.addr)) = 0]_vars

\* B had sent datagrams before (it was registered), two other peers are
\* active, and each of the three got its notifications
C2_Witness ==
    /\ Handled("Hello")
    /\ ~last.is_new_client
    /\ Cardinality(Registered(clients)) = 3
    /\ CountKind(sent, last.addr, NewClient) = 2
    /\ \A a \in Registered(clients) \ {last.addr} :
           CountSent(sent, a, NewClientOf(last.addr)) = 1

----------------------------------------------------------------------------
(* C3: in an iteration whose sweep runs, every entry that is not the       *)
(* sender's and whose last activity is 500 s or more before the sweep is   *)
(* gone from the registry afterwards, is sent one Bye, and every peer      *)
(* left by the sweep (the sender, and the registry after the iteration)    *)
(* is sent exactly one DeleteClient naming it.                             *)
C3_Eviction ==
    [][(last'.op = "recv" /\ last'.swept) =>
         \A i \in 1..Len(clients) :
             (clients[i].addr # last'.addr
              /\ now - clients[i].last_active >= 500 * 1000)
             => /\ clients[i].addr \notin Registered(clients')
                /\ CountSent(sent', clients[i].addr, <<Bye>>) = 1
                /\ \A r \in Registered(clients') \cup {last'.addr} :
                       /\ r # clients[i].addr
                       /\ CountSent(sent', r, DeleteClientOf(clients[i].addr)) = 1]_vars

\* two peers evicted by one sweep, the sender told of each exactly once
C3_Witness ==
    /\ last.op = "recv"
    /\ last.swept
    /\ Cardinality(Evicted) = 2
    /\ Registered(clients) = {last.addr}
    /\ \A e \in Evicted : CountSent(sent, last.addr, DeleteClientOf(e)) = 1

----------------------------------------------------------------------------
(* C4: after an iteration that received a Bye from a peer P that was in    *)
(* the registry, P is not in the registry, P was sent exactly one Bye,     *)
(* every peer in the registry was sent exactly one DeleteClient carrying   *)
(* the text of P's address, and P was sent no DeleteClient naming it (and  *)
(* none at all unless a sweep of the same iteration evicted other peers).  *)
C4_Bye ==
    (Handled("Bye") /\ ~last.is_new_client) =>
        /\ last.addr \notin Registered(clients)
        /\ CountKind(sent, last.addr, Bye) = 1
        /\ CountSent(sent, last.addr, <<Bye>>) = 1
        /\ \A r \in Registered(clients) :
               CountSent(sent, r, DeleteClientOf(last.addr)) = 1
        /\ CountSent(sent, last.addr, DeleteClientOf(last.addr)) = 0
        /\ CountKind(sent, last.addr, DeleteClient) = Cardinality(Evicted)

C4_Witness ==
    /\ Handled("Bye")
    /\ ~last.is_new_client
    /\ ~last.swept
    /\ Cardinality(Registered(clients)) = 2
    /\ Len(sent) = 3
    /\ CountSent(sent, last.addr, <<Bye>>) = 1

----------------------------------------------------------------------------
(* C5: no two entries of the registry have the same address.               *)
C5_UniqueAddresses ==
    \A i, j \in 1..Len(clients) :
        clients[i].addr = clients[j].addr => i = j

\* a full registry that has just received a datagram from a peer it knew
C5_Witness ==
    /\ last.op = "recv"
    /\ ~last.is_new_client
    /\ Len(clients) = 3

----------------------------------------------------------------------------
----------------------------------------------------------------------------
(* C7: after an iteration that received anything but a Bye from A, A is in *)
(* the registry with the time of receipt as its timestamp; and an address  *)
(* leaves the registry only in an iteration that received a Bye from it,   *)
(* or whose sweep ran while its last activity was 500 s or more old.       *)
C7_EntryLifecycle ==
    [][/\ (last'.op = "recv" /\ decode_message(last'.buf).variant # "Bye")
          => \E j \in 1..Len(clients') :
                 /\ clients'[j].addr = last'.addr
                 /\ clients'[j].last_active = now
       /\ \A i \in 1..Len(clients) :
              clients[i].addr \notin Registered(clients')
              => /\ last'.op = "recv"
                 /\ \/ /\ decode_message(last'.buf).variant = "Bye"
                       /\ last'.addr = clients[i].addr
                    \/ /\ last'.swept
                       /\ last'.addr # clients[i].addr
                       /\ now - clients[i].last_active >= 500 * 1000]_vars

\* a peer registered earlier sends a datagram that is not a Bye, later
C7_Witness ==
    /\ last.op = "recv"
    /\ decode_message(last.buf).variant # "Bye"
    /\ ~last.is_new_client
    /\ now = 499999
    /\ \E j \in 1..Len(clients) :
           clients[j].addr = last.addr /\ clients[j].last_active = now
    /\ \E j \in 1..Len(clients) : clients[j].last_active = 0

----------------------------------------------------------------------------
(* C8: the sweep runs in an iteration exactly when 99 datagrams were       *)
(* received without error since the last sweep (or the start), that is on  *)
(* the 100th; a failed receive and the passing of time change neither the  *)
(* count nor the registry; and an iteration without sweep removes no entry *)
(* but the sender's, however old the entries are.                          *)
C8_SweepCadence ==
    [][/\ last'.op = "recv" =>
              /\ last'.swept <=> (received = 99)
              /\ last'.to_remove # << >> => last'.swept
              /\ ~last'.swept =>
                     \A i \in 1..Len(clients) :
                         clients[i].addr # last'.addr =>
                             \E j \in 1..Len(clients') : clients'[j] = clients[i]
       /\ last'.op # "recv" =>
              /\ clients' = clients
              /\ check_counter' = check_counter
              /\ received' = received]_vars

\* 99 datagrams since the start, and a peer silent for 500 s is still there
C8_Witness ==
    /\ last.op = "recv"
    /\ ~last.swept
    /\ received = 99
    /\ \E j \in 1..Len(clients) : now - clients[j].last_active >= 500 * 1000

----------------------------------------------------------------------------
(* C9 as stated.  Two peers are both active from the end of the iteration  *)
(* that registered the later one, so the claim says of every iteration     *)
(* that registered its sender B, whatever the kind of the datagram: every  *)
(* other peer A in the registry was sent NewClient(B) and B NewClient(A).  *)
C9_Original ==
    (last.op = "recv" /\ last.is_new_client /\ last.addr \in Registered(clients))
    => \A A \in Registered(clients) \ {last.addr} :
           /\ CountSent(sent, A, NewClientOf(last.addr)) >= 1
           /\ CountSent(sent, last.addr, NewClientOf(A)) >= 1

(* C9 as amended: that holds when the datagram that registered B is a      *)
(* Hello; an iteration that registers its sender by another kind sends no  *)
(* NewClient at all.                                                       *)
C9_FullMesh ==
    (last.op = "recv" /\ last.is_new_client /\ last.addr \in Registered(clients))
    => IF decode_message(last.buf).variant = "Hello"
       THEN \A A \in Registered(clients) \ {last.addr} :
                /\ CountSent(sent, A, NewClientOf(last.addr)) >= 1
                /\ CountSent(sent, last.addr, NewClientOf(A)) >= 1
       ELSE \A i \in 1..Len(sent) : sent[i].bytes[1] # NewClient

\* the third peer joins by Hello and the mesh is complete
C9_Witness ==
    /\ Handled("Hello")
    /\ last.is_new_client
    /\ Cardinality(Registered(clients)) = 3
    /\ \A A \in Registered(clients) \ {last.addr} :
           /\ CountSent(sent, A, NewClientOf(last.addr)) = 1
           /\ CountSent(sent, last.addr, NewClientOf(A)) = 1

----------------------------------------------------------------------------
(* C10 *)

\* the kind byte of a decoded message's variant
KindOf(msg) ==
    CASE msg.variant = "Audio" -> Audio
      [] msg.variant = "Ping" -> Ping
      [] msg.variant = "Hello" -> Hello
      [] msg.variant = "Bye" -> Bye
      [] msg.variant = "NewClient" -> NewClient
      [] msg.variant = "DeleteClient" -> DeleteClient
      [] OTHER -> msg.kind

\* the bytes a decoded message carries (Ping and Bye carry none)
CarriedBy(msg) ==
    IF "payload" \in DOMAIN msg THEN msg.payload
    ELSE IF "text" \in DOMAIN msg THEN msg.text
    ELSE << >>

\* over PayloadBytes the well-formed UTF-8 texts are the sequences of 'A'
\* (0x41) and U+00E9 (0xC3 0xA9)
RECURSIVE IsTextOfAandEacute(_)
IsTextOfAandEacute(s) ==
    \/ Len(s) = 0
    \/ s[1] = 65 /\ IsTextOfAandEacute(SubSeq(s, 2, Len(s)))
    \/ Len(s) >= 2 /\ s[1] = 195 /\ s[2] = 169
       /\ IsTextOfAandEacute(SubSeq(s, 3, Len(s)))

MaxBufLen == 3

RawBytes == {0, 3, 7, 65, 255}

RawBufs == SeqsUpTo(RawBytes, MaxBufLen)

DecodeInit ==
    /\ RelayIdle
    /\ ClientIdle
    /\ codec \in [pc : {"raw"}, buf : RawBufs]

DecodeRaw ==
    /\ codec.pc = "raw"
    /\ codec' = [pc |-> "raw_decoded", buf |-> codec.buf,
                 msg |-> decode_message(codec.buf)]
    /\ UNCHANGED <<relay_vars, client_vars, session_vars>>

DecodeNext ==
    \/ DecodeRaw

SpecDecode == DecodeInit /\ [][DecodeNext]_vars

(***************************************************************************)
(* C11: decode_message of a buffer whose first byte is none of the kinds   *)
(* 1..6 is Unknown carrying that byte and the bytes after it, unchanged    *)
(* and in order; decode_message of the empty buffer is Unknown with kind 0 *)
(* and an empty payload.  decode_message has a value for every buffer.     *)
(***************************************************************************)
C11_UnknownDecode ==
    codec.pc = "raw_decoded" =>
        /\ codec.buf = << >> =>
              codec.msg = [variant |-> "Unknown", kind |-> 0, payload |-> << >>]
        /\ (codec.buf # << >> /\ codec.buf[1] \notin 1..6) =>
              /\ codec.msg.variant = "Unknown"
              /\ codec.msg.kind = codec.buf[1]
              /\ Len(codec.msg.payload) = Len(codec.buf) - 1
              /\ \A i \in 1..Len(codec.msg.payload) :
                     codec.msg.payload[i] = codec.buf[i + 1]

C11_Witness ==
    /\ codec.pc = "raw_decoded"
    /\ codec.buf = <<255, 65, 0>>
    /\ codec.msg = [variant |-> "Unknown", kind |-> 255, payload |-> <<65, 0>>]

(***************************************************************************)
(* The client (src/src/client.rs, src/src/tui.rs).                         *)
(*                                                                         *)
(* A control event is a string ("ToggleMute", "ToggleDeafen", "Exit"); an  *)
(* inbox is the sequence of the events sent and not yet taken, oldest      *)
(* first (std::sync::mpsc is a FIFO without a capacity).  An event for the *)
(* UI is a record tagged by `type`.                                        *)
(***************************************************************************)
hangover_limit == 10

SilenceThreshold == 200

\* Receiver::try_recv takes every event and returns the newest
receive_tui_message_drain(rx) ==
    IF rx = << >> THEN [msg |-> "None", rest |-> << >>]
    ELSE [msg |-> rx[Len(rx)], rest |-> << >>]

\* try_recv: the oldest event if there is one, never waiting
receive_tui_message(rx) ==
    IF rx = << >> THEN [msg |-> "None", rest |-> << >>]
    ELSE [msg |-> Head(rx), rest |-> Tail(rx)]

\* crate::channel_util::send_tui_message: the event joins the UI's inbox
send_tui_message(msg, tx) == Append(tx, msg)

TransmitAudio(b) == [type |-> "TransmitAudio", on |-> b]

RECURSIVE SumSquares(_)
SumSquares(pcm) ==
    IF pcm = << >> THEN 0
    ELSE Head(pcm) * Head(pcm) + SumSquares(Tail(pcm))

\* the largest r in lo..hi with r * r <= n  (lo * lo <= n is given)
RECURSIVE IsqrtIn(_, _, _)
IsqrtIn(n, lo, hi) ==
    IF lo = hi THEN lo
    ELSE LET mid == (lo + hi + 1) \div 2
         IN  IF mid * mid <= n THEN IsqrtIn(n, mid, hi)
             ELSE IsqrtIn(n, lo, mid - 1)

\* the integer part of the square root of a mean of squares of i16 samples
Isqrt(n) == IsqrtIn(n, 0, 32768)

\* the comparison accepts the threshold itself
is_silence_or_equal(pcm, threshold) ==
    IF pcm = << >> THEN TRUE
    ELSE Isqrt(SumSquares(pcm) \div Len(pcm)) <= threshold

\* The f64 values are modelled by their integer parts.  The sum of squares
\* is an integer below 2^53 and therefore exact in f64; the quotient and its
\* root are at least 200 when sum >= 40000 * len and stay further below
\* than an f64 rounding step otherwise, so `rms < 200.0` is decided by the
\* integer part of the root of the integer part of the quotient.
is_silence(pcm, threshold) ==
    IF pcm = << >> THEN TRUE
    ELSE LET sum == SumSquares(pcm)
             rms == Isqrt(sum \div Len(pcm))
         IN  rms < threshold

\* the frame is sent although the pipeline is muted
gate_ignore_mute(muted, hangover, silent) ==
    IF silent /\ hangover = 0 THEN "suppressed"
    ELSE "passed"

\* the hangover ends one frame early
gate_one_early(muted, hangover, silent) ==
    IF muted THEN "muted"
    ELSE IF silent /\ hangover <= 1 THEN "suppressed"
    ELSE "passed"

\* only a non-silent frame is held back by the mute
gate_mute_loud_only(muted, hangover, silent) ==
    IF muted /\ ~silent THEN "muted"
    ELSE IF silent /\ hangover = 0 THEN "suppressed"
    ELSE "passed"

\* the early returns of consume, in their order
gate(muted, hangover, silent) ==
    IF muted THEN "muted"
    ELSE IF silent /\ hangover = 0 THEN "suppressed"
    ELSE "passed"

\* a silent frame leaves the counter alone
next_hangover_keep(hangover, silent) ==
    IF silent THEN hangover ELSE hangover_limit

\* the counter after a frame that passed the gate
next_hangover(hangover, silent) ==
    IF silent THEN hangover - 1 ELSE hangover_limit

\* what one call of consume left behind, for the properties
NoOut == [gate |-> "none"]

\* silent frames since the last non-silent frame consumed unmuted, as long
\* as every frame since was consumed unmuted; -1 otherwise; capped
MaxRun == 12

next_run(run, g, silent) ==
    IF g = "muted" THEN -1
    ELSE IF ~silent THEN 0
    ELSE IF run < 0 THEN -1
    ELSE IF run < MaxRun THEN run + 1
    ELSE MaxRun

\* NetworkClient::consume(data); enc is what Encoder::encode returns (an
\* error or a packet), send_ok whether socket.try_send succeeds
consume(c, data, enc, send_ok) ==
    LET polled == receive_tui_message(c.inbox)
        muted  == IF polled.msg = "ToggleMute" THEN ~c.muted ELSE c.muted
        silent == is_silence(data, SilenceThreshold)
        g      == gate(muted, c.hangover, silent)
        c1     == [c EXCEPT !.inbox = polled.rest, !.muted = muted,
                            !.run = next_run(c.run, g, silent)]
        o      == [gate |-> g, polled |-> polled.msg, silent |-> silent,
                   before |-> c.hangover]
    IN  IF g # "passed"
        THEN [c1 EXCEPT !.out = o @@
                                [events |-> send_tui_message(TransmitAudio(FALSE), << >>),
                                 wire |-> << >>, result |-> "Ok"]]
        ELSE LET c2 == [c1 EXCEPT !.hangover = next_hangover(c.hangover, silent)]
             IN  IF ~enc.ok
                 THEN [c2 EXCEPT !.pc = "panicked",
                                 !.out = o @@ [events |-> << >>, wire |-> << >>,
                                               result |-> "panic"]]
                 ELSE [c2 EXCEPT !.out = o @@
                         [events |-> send_tui_message(TransmitAudio(TRUE), << >>),
                          wire |-> <<encode_message(Audio, enc.packet)>>,
                          result |-> IF send_ok THEN "Ok" ELSE "WriteError"]]

\* frames of two samples stand for the 1920 samples of a captured frame:
\* silence, just below the threshold, at the threshold, full scale
Frames == { <<0, 0>>, <<199, -199>>, <<200, -200>>, <<-32768, 0>> }

\* packets the encoder may return
OpusPackets == { <<120, 7>> }

\* Result<usize> of Encoder::encode, with the bytes it wrote
EncodeResults ==
    {[ok |-> FALSE]} \cup {[ok |-> TRUE, packet |-> p] : p \in OpusPackets}

MaxInbox == 2

SendStart ==
    [pc |-> "run", hangover |-> 0, muted |-> FALSE, inbox |-> << >>,
     run |-> -1, out |-> NoOut]

\* ClientState::default()
UiStart == [mute |-> FALSE, deafen |-> FALSE, exit |-> FALSE]

SendInit ==
    /\ RelayIdle
    /\ codec = CodecIdle
    /\ rcv = [pc |-> "idle"]
    /\ sil = [pc |-> "idle"]
    /\ snd = SendStart
    /\ ui = UiStart
    /\ up = << >>
    /\ byed = {}

\* one iteration of send_audio: a captured frame is handed to consume
send_audio(data, enc, send_ok) ==
    /\ snd.pc = "run"
    /\ snd' = consume(snd, data, enc, send_ok)
    /\ UNCHANGED <<relay_vars, codec, rcv, sil, session_vars>>

\* AudioProducer::produce fails: the loop of send_audio ends
produce_error ==
    /\ snd.pc = "run"
    /\ snd' = [snd EXCEPT !.pc = "stopped", !.out = NoOut]
    /\ UNCHANGED <<relay_vars, codec, rcv, sil, session_vars>>

\* App::handle_event, key 'm', reached while App::run loops (exit not set):
\* the UI's flag flips and ToggleMute goes to the send pipeline
key_m ==
    /\ ~ui.exit
    /\ Len(snd.inbox) < MaxInbox
    /\ ui' = [ui EXCEPT !.mute = ~@]
    /\ snd' = [snd EXCEPT !.inbox = Append(@, "ToggleMute"), !.out = NoOut]
    /\ UNCHANGED <<relay_vars, codec, rcv, sil, up, byed>>

SendFrame ==
    \E data \in Frames, enc \in EncodeResults, send_ok \in BOOLEAN :
        send_audio(data, enc, send_ok)

SendNext ==
    \/ SendFrame
    \/ produce_error
    \/ key_m

SpecSend == SendInit /\ [][SendNext]_vars

\* consume has just returned (or panicked) for a frame
Consumed == snd.pc # "idle" /\ snd.out.gate # "none"

\* the datagrams of the last consume that carry the kind Audio
AudioSent == { i \in DOMAIN snd.out.wire : snd.out.wire[i][1] = Audio }

(***************************************************************************)
(* C12: when the frame just consumed is silent, was consumed unmuted and   *)
(* is the k-th silent frame since a non-silent frame consumed unmuted      *)
(* (every frame in between consumed unmuted too), then for k <= 10 it      *)
(* passed the gate and, unless the encoder failed, exactly one Audio       *)
(* datagram was handed to the socket for it; for k >= 11 it was suppressed *)
(* and no datagram was handed to the socket.                               *)
(***************************************************************************)
C12_Hangover ==
    (Consumed /\ snd.out.gate # "muted" /\ snd.out.silent /\ snd.run >= 1) =>
        /\ snd.run <= 10 =>
              /\ snd.out.gate = "passed"
              /\ snd.out.result # "panic" =>
                    (Len(snd.out.wire) = 1 /\ Cardinality(AudioSent) = 1)
        /\ snd.run >= 11 =>
              /\ snd.out.gate = "suppressed"
              /\ snd.out.wire = << >>

C12_Witness ==
    /\ Consumed
    /\ snd.out.silent
    /\ snd.run = 11
    /\ snd.out.gate = "suppressed"
    /\ snd.out.wire = << >>

(***************************************************************************)
(* C13: the hangover counter is always in 0..10; a non-silent frame        *)
(* consumed unmuted leaves it at 10; a silent frame consumed unmuted       *)
(* leaves it one lower when it was positive and at 0 when it was 0; a      *)
(* frame consumed muted leaves it as it was.                               *)
(***************************************************************************)
C13_HangoverRange ==
    snd.pc # "idle" =>
        /\ snd.hangover \in 0..10
        /\ Consumed =>
              /\ (snd.out.gate # "muted" /\ ~snd.out.silent) => snd.hangover = 10
              /\ (snd.out.gate # "muted" /\ snd.out.silent /\ snd.out.before > 0) =>
                     snd.hangover = snd.out.before - 1
              /\ (snd.out.gate # "muted" /\ snd.out.silent /\ snd.out.before = 0) =>
                     snd.hangover = 0
              /\ snd.out.gate = "muted" => snd.hangover = snd.out.before

C13_Witness ==
    /\ Consumed
    /\ snd.out.gate = "passed"
    /\ snd.out.silent
    /\ snd.out.before = 1
    /\ snd.hangover = 0

(***************************************************************************)
(* C14: whenever consume returns with the mute flag set, it handed no      *)
(* datagram to the socket for the frame, whether the frame is silent or    *)
(* not and whatever the hangover counter.                                  *)
(***************************************************************************)
C14_MuteGate ==
    (Consumed /\ snd.muted) =>
        /\ snd.out.gate = "muted"
        /\ snd.out.wire = << >>

C14_Witness ==
    /\ Consumed
    /\ snd.muted
    /\ ~snd.out.silent
    /\ snd.hangover > 0
    /\ snd.out.wire = << >>

(***************************************************************************)
(* The receive pipeline, receive_audio.  One iteration of its loop is two  *)
(* steps, because the task waits in socket.recv_from between them: the     *)
(* poll of the inbox with the handling of the event it took (pc "top" to   *)
(* "await"), and the return of recv_from with the dispatch of the datagram *)
(* (pc "await" to "top").  `net` holds the datagrams that have arrived at  *)
(* the socket and are not yet received.  What a step did is left in `out`. *)
(***************************************************************************)
Connect == [type |-> "Connect"]

Disconnect == [type |-> "Disconnect"]

NoStep == [op |-> "none"]

\* str::parse::<SocketAddr> of String::from_utf8_lossy(payload), for the
\* payloads of ClientDatagrams: the text of an address, or no address
parse_socket_addr(payload) ==
    LET m == { a \in Addrs : addr_to_string(a) = payload }
    IN  IF m = {} THEN [ok |-> FALSE]
        ELSE [ok |-> TRUE, addr |-> CHOOSE a \in m : TRUE]

\* the deafen flag is not looked at
audio_arm_not_deaf(deafened, dec_ok, play_ok) ==
    IF ~dec_ok
    THEN [pc |-> "panicked", decodes |-> 1, plays |-> 0, failure |-> "decode",
          events |-> << >>]
    ELSE [pc |-> "top", decodes |-> 1, plays |-> 1,
          failure |-> IF play_ok THEN "none" ELSE "playback",
          events |-> send_tui_message(Connect, << >>)]

\* the arm Message::Audio with the Connect after the match: `continue` when
\* deafened, Decoder::decode(..).unwrap(), AudioConsumer::consume
audio_arm(deafened, dec_ok, play_ok) ==
    IF deafened
    THEN [pc |-> "top", decodes |-> 0, plays |-> 0, failure |-> "none",
          events |-> << >>]
    ELSE IF ~dec_ok
    THEN [pc |-> "panicked", decodes |-> 1, plays |-> 0, failure |-> "decode",
          events |-> << >>]
    ELSE [pc |-> "top", decodes |-> 1, plays |-> 1,
          failure |-> IF play_ok THEN "none" ELSE "playback",
          events |-> send_tui_message(Connect, << >>)]

\* the arms NewClient and DeleteClient with the Connect after the match
peer_arm(type, payload) ==
    LET p == parse_socket_addr(payload)
    IN  IF p.ok
        THEN [pc |-> "top", decodes |-> 0, plays |-> 0, failure |-> "none",
              events |-> send_tui_message(Connect,
                            send_tui_message([type |-> type, addr |-> p.addr], << >>))]
        ELSE [pc |-> "top", decodes |-> 0, plays |-> 0, failure |-> "malformed",
              events |-> send_tui_message(Connect, << >>)]

\* the match on the decoded datagram and what follows it in the iteration
dispatch(deafened, dg, dec_ok, play_ok) ==
    LET msg == decode_message(dg)
    IN  IF msg.variant = "Audio" THEN audio_arm(deafened, dec_ok, play_ok)
        ELSE IF msg.variant = "NewClient" THEN peer_arm("NewClient", msg.payload)
        ELSE IF msg.variant = "DeleteClient" THEN peer_arm("DeleteClient", msg.payload)
        ELSE IF msg.variant = "Bye"
        THEN [pc |-> "exited", decodes |-> 0, plays |-> 0, failure |-> "none",
              events |-> << >>]
        ELSE [pc |-> "top", decodes |-> 0, plays |-> 0, failure |-> "none",
              events |-> send_tui_message(Connect, << >>)]

\* the peer the notifications of the model name
APeer == [ip |-> <<10, 0, 0, 1>>, port |-> 7]

\* datagrams the relay or anyone else may send to the client's socket
ClientDatagrams ==
    { <<Audio, 120, 7>>, <<Ping>>, <<Hello>>, <<Bye>>, <<9, 65>>,
      <<NewClient>> \o addr_to_string(APeer), <<NewClient, 255>>,
      <<DeleteClient>> \o addr_to_string(APeer) }

MaxNet == 1

RecvStart ==
    [pc |-> "start", deafened |-> FALSE, inbox |-> << >>, net |-> << >>,
     out |-> NoStep]

RecvInit ==
    /\ RelayIdle
    /\ codec = CodecIdle
    /\ snd = [pc |-> "idle"]
    /\ sil = [pc |-> "idle"]
    /\ rcv = RecvStart
    /\ ui = UiStart
    /\ up = << >>
    /\ byed = {}

\* before the loop: try_send(Hello).unwrap(), PulseAudioConsumer::new().unwrap()
start_receive(r, ok) ==
    [r EXCEPT
       !.pc = IF ok THEN "top" ELSE "panicked",
       !.out = [op |-> "start",
                wire |-> IF ok THEN <<encode_message(Hello, << >>)>> ELSE << >>]]

\* top of the loop: one poll of the inbox; bye_ok is whether try_send(Bye)
\* succeeds
poll_inbox(r, bye_ok) ==
    LET polled == receive_tui_message(r.inbox)
        exit   == polled.msg = "Exit"
    IN  [r EXCEPT
           !.inbox = polled.rest,
           !.deafened = IF polled.msg = "ToggleDeafen" THEN ~@ ELSE @,
           !.pc = IF exit /\ ~bye_ok THEN "panicked" ELSE "await",
           !.out = [op |-> "poll", before |-> r.inbox, msg |-> polled.msg,
                    wire |-> IF exit /\ bye_ok
                             THEN <<encode_message(Bye, << >>)>> ELSE << >>,
                    events |-> IF exit /\ bye_ok
                               THEN send_tui_message(Disconnect, << >>)
                               ELSE << >>]]

\* recv_from returns the oldest datagram; the rest of the iteration
receive_datagram(r, dec_ok, play_ok) ==
    LET dg == Head(r.net)
        d  == dispatch(r.deafened, dg, dec_ok, play_ok)
    IN  [r EXCEPT
           !.net = Tail(@),
           !.pc = d.pc,
           !.out = [op |-> "recv", dg |-> dg, before |-> r.net,
                    variant |-> decode_message(dg).variant,
                    decodes |-> d.decodes, plays |-> d.plays,
                    failure |-> d.failure, events |-> d.events]]

receive_audio_start(ok) ==
    /\ rcv.pc = "start"
    /\ rcv' = start_receive(rcv, ok)
    /\ UNCHANGED <<relay_vars, codec, snd, sil, session_vars>>

receive_audio_poll(bye_ok) ==
    /\ rcv.pc = "top"
    /\ rcv' = poll_inbox(rcv, bye_ok)
    /\ UNCHANGED <<relay_vars, codec, snd, sil, session_vars>>

receive_audio_recv(dec_ok, play_ok) ==
    /\ rcv.pc = "await"
    /\ rcv.net # << >>
    /\ rcv' = receive_datagram(rcv, dec_ok, play_ok)
    /\ UNCHANGED <<relay_vars, codec, snd, sil, session_vars>>

\* recv_from(..).unwrap() on an error of the socket
recv_from_error ==
    /\ rcv.pc = "await"
    /\ rcv' = [rcv EXCEPT !.pc = "panicked", !.out = NoStep]
    /\ UNCHANGED <<relay_vars, codec, snd, sil, session_vars>>

\* a datagram arrives at the client's socket
deliver(dg) ==
    /\ rcv.pc # "exited"
    /\ Len(rcv.net) < MaxNet
    /\ rcv' = [rcv EXCEPT !.net = Append(@, dg), !.out = NoStep]
    /\ UNCHANGED <<relay_vars, codec, snd, sil, session_vars>>

\* the pipeline is told, the UI's flag stays
key_d_unflagged ==
    /\ rcv.pc # "exited"
    /\ ~ui.exit
    /\ Len(rcv.inbox) < MaxInbox
    /\ rcv' = [rcv EXCEPT !.inbox = Append(@, "ToggleDeafen"), !.out = NoStep]
    /\ UNCHANGED <<relay_vars, codec, snd, sil, ui, up, byed>>

\* App::handle_event, keys 'd' and 'q', reached while App::run loops (exit
\* not set): the UI's flag changes, and ToggleDeafen or Exit goes to the
\* receive pipeline
key_d ==
    /\ rcv.pc # "exited"
    /\ ~ui.exit
    /\ Len(rcv.inbox) < MaxInbox
    /\ ui' = [ui EXCEPT !.deafen = ~@]
    /\ rcv' = [rcv EXCEPT !.inbox = Append(@, "ToggleDeafen"), !.out = NoStep]
    /\ UNCHANGED <<relay_vars, codec, snd, sil, up, byed>>

key_q ==
    /\ rcv.pc # "exited"
    /\ ~ui.exit
    /\ Len(rcv.inbox) < MaxInbox
    /\ ui' = [ui EXCEPT !.exit = TRUE]
    /\ rcv' = [rcv EXCEPT !.inbox = Append(@, "Exit"), !.out = NoStep]
    /\ UNCHANGED <<relay_vars, codec, snd, sil, up, byed>>

\* the steps of the pipeline task itself
RecvStep ==
    \/ \E ok \in BOOLEAN : receive_audio_start(ok)
    \/ \E bye_ok \in BOOLEAN : receive_audio_poll(bye_ok)
    \/ \E dec_ok \in BOOLEAN, play_ok \in BOOLEAN : receive_audio_recv(dec_ok, play_ok)

Arrive == \E dg \in ClientDatagrams : deliver(dg)

RecvNext ==
    \/ RecvStep
    \/ recv_from_error
    \/ Arrive
    \/ key_d
    \/ key_q

SpecRecv == RecvInit /\ [][RecvNext]_vars

\* the pipeline task takes a step whenever it stays able to
SpecRecvFair == RecvInit /\ [][RecvNext]_vars /\ WF_vars(RecvStep)

\* the step just taken is the return of recv_from with its dispatch
Received == rcv.pc # "idle" /\ rcv.out.op = "recv"

\* the step just taken is the poll at the top of the loop
Polled == rcv.pc # "idle" /\ rcv.out.op = "poll"

ConnectCount ==
    Cardinality({ i \in DOMAIN rcv.out.events : rcv.out.events[i] = Connect })

(***************************************************************************)
(* C15: when the receive pipeline has received an Audio datagram with its  *)
(* deafen flag set, the datagram was the oldest one at the socket and is   *)
(* gone from it, the decoder and the playback were not called, and the     *)
(* pipeline is at the top of its loop again.                               *)
(***************************************************************************)
C15_Deafen ==
    (Received /\ rcv.out.variant = "Audio" /\ rcv.deafened) =>
        /\ rcv.out.dg = Head(rcv.out.before)
        /\ rcv.net = Tail(rcv.out.before)
        /\ rcv.out.decodes = 0
        /\ rcv.out.plays = 0
        /\ rcv.pc = "top"

C15_Witness ==
    /\ Received
    /\ rcv.out.variant = "Audio"
    /\ rcv.deafened
    /\ rcv.out.decodes = 0
    /\ rcv.pc = "top"

ExitQueued ==
    /\ rcv.pc # "idle"
    /\ \E i \in DOMAIN rcv.inbox : rcv.inbox[i] = "Exit"

ByeThenDisconnect ==
    /\ Polled
    /\ rcv.out.msg = "Exit"
    /\ rcv.out.wire = <<encode_message(Bye, << >>)>>
    /\ rcv.out.events = <<Disconnect>>

(***************************************************************************)
(* C16 as stated: whenever an Exit event is in the inbox of the receive    *)
(* pipeline, the pipeline eventually takes it, transmits a Bye and emits   *)
(* Disconnect, given only that the pipeline task keeps taking the steps it *)
(* is able to take.  A run in which the task has panicked on a failing     *)
(* socket or codec call is not held against the statement.                 *)
(***************************************************************************)
C16_Original == ExitQueued ~> (ByeThenDisconnect \/ rcv.pc = "panicked")

(***************************************************************************)
(* C17 as stated: every event that is in the inbox when an iteration       *)
(* begins is consumed by that iteration, so that none is left after the    *)
(* poll.                                                                   *)
(***************************************************************************)
C17_Original == Polled => rcv.inbox = << >>

(***************************************************************************)
(* C17 as amended: the poll of an iteration takes exactly the oldest event *)
(* of the inbox and leaves the others queued in their order, so that an    *)
(* event with k events ahead of it is consumed by the (k+1)-th poll after  *)
(* it was sent; the poll does not wait: with an empty inbox it takes       *)
(* nothing and the iteration goes on to recv_from.                         *)
(***************************************************************************)
C17_OnePerIteration ==
    Polled =>
        /\ rcv.out.before = << >> =>
              (rcv.out.msg = "None" /\ rcv.inbox = << >> /\ rcv.pc = "await")
        /\ rcv.out.before # << >> =>
              /\ rcv.out.msg = rcv.out.before[1]
              /\ Len(rcv.inbox) = Len(rcv.out.before) - 1
              /\ \A i \in DOMAIN rcv.inbox : rcv.inbox[i] = rcv.out.before[i + 1]

C17_Witness ==
    /\ Polled
    /\ rcv.out.before = <<"ToggleDeafen", "Exit">>
    /\ rcv.out.msg = "ToggleDeafen"
    /\ rcv.inbox = <<"Exit">>

(***************************************************************************)
(* C18 as stated: after every datagram that the receive pipeline received  *)
(* and processed without failing (any kind but Bye, deafened or not), the  *)
(* iteration emitted exactly one Connect.                                  *)
(***************************************************************************)
C18_Original ==
    (Received /\ rcv.out.variant # "Bye" /\ rcv.pc # "panicked") =>
        ConnectCount = 1

(***************************************************************************)
(* C19 as stated: a failure on one received frame (the decoder fails, the  *)
(* playback fails, a notification does not parse) drops that frame only,   *)
(* and the receive pipeline is at the top of its loop again.               *)
(***************************************************************************)
C19_Original ==
    (Received /\ rcv.out.failure # "none") => rcv.pc = "top"

(***************************************************************************)
(* is_silence on its own, with the threshold consume passes: every frame   *)
(* of 0..MaxFrameLen samples over Samples with at most one sample at full  *)
(* scale, which keeps the sum of squares below 2^31, the range of the      *)
(* integers of the model checker.                                          *)
(***************************************************************************)
MaxFrameLen == 2

\* full scale, both ends of i16
LoudSamples == {-32768, 32767}

\* around the threshold: one sample of a pair may reach 282 before the pair
\* stops being silent
Samples == {-200, -199, 0, 199, 200, 282, 283} \cup LoudSamples

SilenceFrames ==
    { f \in SeqsUpTo(Samples, MaxFrameLen) :
        Cardinality({ i \in DOMAIN f : f[i] \in LoudSamples }) <= 1 }

SilenceInit ==
    /\ RelayIdle
    /\ codec = CodecIdle
    /\ snd = [pc |-> "idle"]
    /\ rcv = [pc |-> "idle"]
    /\ sil \in [pc : {"start"}, pcm : SilenceFrames]
    /\ ui = [pc |-> "idle"]
    /\ up = << >>
    /\ byed = {}

SilenceApply ==
    /\ sil.pc = "start"
    /\ sil' = [pc |-> "done", pcm |-> sil.pcm,
               silent |-> is_silence(sil.pcm, SilenceThreshold)]
    /\ UNCHANGED <<relay_vars, codec, snd, rcv, session_vars>>

SilenceNext ==
    \/ SilenceApply

SpecSilence == SilenceInit /\ [][SilenceNext]_vars

(***************************************************************************)
(* C20: is_silence with threshold 200 calls a frame of n >= 1 samples      *)
(* silent exactly when the sum of the squares of its samples is less than  *)
(* 200 * 200 * n; so a frame of zeros is silent (the frame of no samples   *)
(* too) and a frame whose RMS is 200 or more is not, with samples of       *)
(* -32768 like any other.                                                  *)
(***************************************************************************)
C20_Silence ==
    sil.pc = "done" =>
        /\ sil.pcm # << >> =>
              (sil.silent <=> SumSquares(sil.pcm) < 200 * 200 * Len(sil.pcm))
        /\ (\A i \in DOMAIN sil.pcm : sil.pcm[i] = 0) => sil.silent

C20_Witness ==
    /\ sil.pc = "done"
    /\ sil.pcm = <<-32768, 0>>
    /\ ~sil.silent

(***************************************************************************)
(* C21: a step of the send side that ends with the mute flag set leaves    *)
(* the hangover counter as it was; if the step is a call of consume, the   *)
(* frame went through no gate and the call emitted TransmitAudio(false)    *)
(* and nothing else.  The counter therefore has, when a poll clears the    *)
(* flag, the value it had when a poll set it.                              *)
(***************************************************************************)
C21_MuteKeepsHangover ==
    [][(snd.pc # "idle" /\ snd'.muted) =>
          /\ snd'.hangover = snd.hangover
          /\ snd'.out.gate # "none" =>
                /\ snd'.out.gate = "muted"
                /\ snd'.out.events = <<TransmitAudio(FALSE)>>
                /\ snd'.out.wire = << >>]_vars

C21_Witness ==
    /\ Consumed
    /\ snd.muted
    /\ snd.out.gate = "muted"
    /\ snd.out.silent
    /\ snd.out.before = 9
    /\ snd.hangover = 9
    /\ snd.out.events = <<TransmitAudio(FALSE)>>

(***************************************************************************)
(* C24 as stated: every call of consume emits exactly one TransmitAudio    *)
(* event; it is TransmitAudio(true) exactly when the call handed an Audio  *)
(* datagram to the socket and TransmitAudio(false) exactly when the frame  *)
(* was dropped by mute or by the gate.                                     *)
(***************************************************************************)
C24_Original ==
    Consumed =>
        /\ Len(snd.out.events) = 1
        /\ snd.out.events[1].type = "TransmitAudio"
        /\ snd.out.events[1].on <=> Cardinality(AudioSent) = 1
        /\ ~snd.out.events[1].on <=> snd.out.gate \in {"muted", "suppressed"}

(***************************************************************************)
(* The sizes of the buffers an Audio message passes through: the encoder   *)
(* writes into encoded_data (BUF_SIZE bytes) and returns how many bytes it *)
(* wrote, consume sends the kind byte and those bytes, server_loop         *)
(* receives into its buf and forwards what it received, receive_audio      *)
(* receives into data.  A datagram longer than the buffer it is received   *)
(* into loses the bytes that do not fit.                                   *)
(***************************************************************************)
BUF_SIZE == 3840

MSG_SIZE == BUF_SIZE + 1

\* encoded_data: [u8; BUF_SIZE] of NetworkClient
EncodedBufLen == BUF_SIZE

\* buf: [0u8; BUF_SIZE] of server_loop
ServerBufLen == BUF_SIZE

\* data: [0u8; MSG_SIZE] of receive_audio
ClientBufLen == MSG_SIZE

\* UdpSocket::recv_from into a buffer of `size` bytes
recv_into(size, dg) ==
    SubSeq(dg, 1, IF Len(dg) < size THEN Len(dg) ELSE size)

SizeInit ==
    /\ RelayIdle
    /\ ClientIdle
    /\ codec \in [pc : {"size_encoded"}, n : 0..EncodedBufLen]

\* consume: encode_message(Audio, &encoded_data[..n]) handed to try_send
SizeSend ==
    /\ codec.pc = "size_encoded"
    /\ codec' = [pc |-> "size_sent", n |-> codec.n,
                 msg |-> encode_message(Audio, [i \in 1..codec.n |-> 0])]
    /\ UNCHANGED <<relay_vars, client_vars, session_vars>>

\* server_loop receives the datagram and forwards buf[..len]; receive_audio
\* of another client receives the forward
SizeRelay ==
    /\ codec.pc = "size_sent"
    /\ LET at_relay == recv_into(ServerBufLen, codec.msg)
       IN  codec' = [pc |-> "size_relayed", n |-> codec.n, msg |-> codec.msg,
                     at_relay |-> at_relay,
                     at_client |-> recv_into(ClientBufLen, at_relay)]
    /\ UNCHANGED <<relay_vars, client_vars, session_vars>>

SizeNext ==
    \/ SizeSend
    \/ SizeRelay

SpecSize == SizeInit /\ [][SizeNext]_vars

(***************************************************************************)
(* C23 as stated: every Audio message consume can send is no longer than   *)
(* the buffer server_loop receives into and no longer than the buffer      *)
(* receive_audio receives into, so that the relay holds it whole.          *)
(***************************************************************************)
C23_Original ==
    codec.pc = "size_relayed" =>
        /\ Len(codec.msg) <= ServerBufLen
        /\ Len(codec.msg) <= ClientBufLen
        /\ codec.at_relay = codec.msg

(***************************************************************************)
(* The UI and both pipelines of one client process together, for the flow  *)
(* of the control events: the keys 'm', 'd' and 'q', the poll of each      *)
(* pipeline, and the failures that end a pipeline.  One loud frame and one *)
(* Audio datagram stand for the audio, which the control events do not     *)
(* depend on.  After process::exit nothing of the process runs.            *)
(***************************************************************************)
ControlFrame == <<200, -200>>

ControlDatagram == <<Audio, 120, 7>>

ControlInit ==
    /\ RelayIdle
    /\ codec = CodecIdle
    /\ sil = [pc |-> "idle"]
    /\ snd = SendStart
    /\ rcv = RecvStart
    /\ ui = UiStart
    /\ up = << >>
    /\ byed = {}

ControlSend ==
    /\ rcv.pc # "exited"
    /\ \E enc \in EncodeResults, send_ok \in BOOLEAN :
           send_audio(ControlFrame, enc, send_ok)

ControlKeyM ==
    /\ rcv.pc # "exited"
    /\ key_m

ControlArrive == deliver(ControlDatagram)

ControlNext ==
    \/ ControlSend
    \/ ControlKeyM
    \/ RecvStep
    \/ ControlArrive
    \/ key_d
    \/ key_q

SpecControl == ControlInit /\ [][ControlNext]_vars

ByeAddrs == { a \in Addrs : a.port = 7 }

ByeDatagrams == { <<Audio, 195, 169>>, <<Bye>> }

ByeReceive ==
    \E addr \in ByeAddrs, buf \in ByeDatagrams :
        /\ server_loop(addr, buf)
        /\ byed' = IF decode_message(buf).variant = "Bye"
                   THEN byed \cup {addr} ELSE byed
        /\ UNCHANGED <<ui, up>>

ByeNext ==
    \/ ByeReceive
    \/ Tick

SpecBye == Init /\ [][ByeNext]_vars

\* the addresses the last iteration sent a Bye to
ByeTo == { sent[i].to : i \in { j \in 1..Len(sent) : sent[j].bytes[1] = Bye } }

(***************************************************************************)
(* C22 as stated: the relay sends a Bye only to an address it has          *)
(* processed a Bye from (the one of this iteration included).              *)
(***************************************************************************)
C22_Original == ByeTo \subseteq byed

(***************************************************************************)
(* C22 as amended: the relay sends a Bye to an address in the iteration    *)
(* that received a Bye from it, and to each address a liveness sweep       *)
(* evicts, and to no other; an evicted address need not have sent a Bye.   *)
(***************************************************************************)
C22_ByeCauses ==
    \A p \in ByeTo :
        /\ last.op = "recv"
        /\ \/ (Handled("Bye") /\ p = last.addr)
           \/ (last.swept /\ p \in Evicted)
        /\ CountSent(sent, p, <<Bye>>) = 1

C22_Witness ==
    /\ last.op = "recv"
    /\ last.swept
    /\ \E p \in Evicted : p \notin byed /\ CountSent(sent, p, <<Bye>>) = 1

(***************************************************************************)
(* C26 as stated: an iteration that received a Bye from an address that    *)
(* was not in the registry sends no Bye to that address and no             *)
(* DeleteClient naming it to any peer.                                     *)
(***************************************************************************)
C26_Original ==
    (Handled("Bye") /\ last.is_new_client) =>
        /\ CountKind(sent, last.addr, Bye) = 0
        /\ \A r \in Registered(clients) :
               CountSent(sent, r, DeleteClientOf(last.addr)) = 0

\* the peers the step's sweep evicted: registered before, gone after, and
\* not the sender
SweptOut ==
    { a \in Registered(clients) : a \notin Registered(clients') /\ a # last'.addr }

(***************************************************************************)
(* C28: in an iteration whose sweep runs, every entry whose last activity  *)
(* is less than 500 s old stays in the registry (unless it is the sender   *)
(* of a Bye, which leaves by its Bye); the sender is not evicted: it is    *)
(* registered afterwards unless it sent a Bye, and is sent a Bye only as   *)
(* the acknowledgment of its own; and the datagram is dispatched against   *)
(* the registry the sweep left: an evicted peer is sent its Bye and the    *)
(* DeleteClient of peers evicted before it, and no forward of the          *)
(* datagram, no NewClient and no DeleteClient naming the sender.           *)
(***************************************************************************)
C28_SweepSpares ==
    [][(last'.op = "recv" /\ last'.swept) =>
          LET bye == decode_message(last'.buf).variant = "Bye"
          IN  /\ \A i \in 1..Len(clients) :
                     (/\ now - clients[i].last_active < 500 * 1000
                      /\ ~(bye /\ clients[i].addr = last'.addr))
                     => clients[i].addr \in Registered(clients')
              /\ ~bye => last'.addr \in Registered(clients')
              /\ CountSent(sent', last'.addr, <<Bye>>) = (IF bye THEN 1 ELSE 0)
              /\ \A e \in SweptOut :
                     \A j \in 1..Len(sent') :
                         sent'[j].to = e =>
                             /\ sent'[j].bytes[1] \in {Bye, DeleteClient}
                             /\ ~bye => sent'[j].bytes # last'.buf
                             /\ sent'[j].bytes # DeleteClientOf(last'.addr)]_vars

\* a sweep triggered by an Audio datagram evicts one peer and keeps another,
\* and only the one kept is sent the forward
C28_Witness ==
    /\ Handled("Audio")
    /\ last.swept
    /\ Cardinality(Evicted) = 1
    /\ Cardinality(Registered(clients)) = 2
    /\ \A e \in Evicted : CountSent(sent, e, last.buf) = 0
    /\ \A r \in Registered(clients) \ {last.addr} : CountSent(sent, r, last.buf) = 1

----------------------------------------------------------------------------
(* One client and the relay: the client's two pipelines share one socket,  *)
(* the datagrams they send queue up on the way to the relay, and what the  *)
(* relay sends to the client reaches the client's socket.                  *)

\* the address of the client's socket
ClientAddr == [ip |-> <<10, 0, 0, 1>>, port |-> 7]

\* datagrams the client sends in one run
MaxSent == 4

ExitInit ==
    /\ RelayIdle
    /\ codec = CodecIdle
    /\ sil = [pc |-> "idle"]
    /\ snd = SendStart
    /\ rcv = RecvStart
    /\ ui = UiStart
    /\ up = << >>
    /\ byed = {}

\* one iteration of send_audio while the process lives: the datagram that
\* try_send accepted is on its way to the relay
ExitSend ==
    /\ snd.pc = "run"
    /\ rcv.pc # "exited"
    /\ check_counter + Len(up) < MaxSent
    /\ \E enc \in EncodeResults, send_ok \in BOOLEAN :
           /\ snd' = consume(snd, ControlFrame, enc, send_ok)
           /\ up' = up \o (IF snd'.out.result = "Ok" THEN snd'.out.wire ELSE << >>)
    /\ UNCHANGED <<relay_vars, codec, rcv, sil, ui, byed>>

\* receive_audio up to its loop: the Hello
ExitStart ==
    /\ rcv.pc = "start"
    /\ check_counter + Len(up) < MaxSent
    /\ \E ok \in BOOLEAN :
           /\ rcv' = start_receive(rcv, ok)
           /\ up' = up \o rcv'.out.wire
    /\ UNCHANGED <<relay_vars, codec, snd, sil, ui, byed>>

\* the poll at the top of the loop: on Exit, the Bye
ExitPoll ==
    /\ rcv.pc = "top"
    /\ check_counter + Len(up) < MaxSent
    /\ \E bye_ok \in BOOLEAN :
           /\ rcv' = poll_inbox(rcv, bye_ok)
           /\ up' = up \o rcv'.out.wire
    /\ UNCHANGED <<relay_vars, codec, snd, sil, ui, byed>>

\* the relay takes the oldest datagram of the client
ExitRelay ==
    /\ up # << >>
    /\ server_loop(ClientAddr, Head(up))
    /\ up' = Tail(up)
    /\ byed' = IF decode_message(Head(up)).variant = "Bye"
               THEN byed \cup {ClientAddr} ELSE byed
    /\ UNCHANGED ui

\* a datagram the relay's last iteration sent to the client arrives
ExitDownlink ==
    \E i \in 1..Len(sent) :
        /\ sent[i].to = ClientAddr
        /\ deliver(sent[i].bytes)

ExitNext ==
    \/ ExitSend
    \/ ExitStart
    \/ ExitPoll
    \/ \E dec_ok \in BOOLEAN, play_ok \in BOOLEAN : receive_audio_recv(dec_ok, play_ok)
    \/ ExitRelay
    \/ ExitDownlink
    \/ key_q

SpecExit == ExitInit /\ [][ExitNext]_vars

(***************************************************************************)
(* C27 as stated: once the relay has processed the Bye of the client that  *)
(* was told to Exit, the client's address is not in the registry.          *)
(***************************************************************************)
C27_Original ==
    (ui.exit /\ ClientAddr \in byed) => ClientAddr \notin Registered(clients)

=============================================================================
